---- MODULE Spec2Model ----
(***************************************************************************)
(* Rattlescan (rattlescan/cli.py): forensic analysis of one file followed   *)
(* by an optional cleaning / secure-wipe action.                            *)
(*                                                                          *)
(* A path is a sequence of name components: <<"photo", ".JPG">> is the      *)
(* path "photo.JPG"; string concatenation fp + ".x" is Append(fp, ".x").    *)
(* A file is a record: size in bytes, the kind of bytes it holds (body),    *)
(* whether it carries metadata tags, and whether it was modified during     *)
(* this invocation (mtime: 0 = as found, 1 = touched).                      *)
(* A report (an OrderedDict of the program) is the set of its field names;  *)
(* None and the empty mapping are both the empty set.                       *)
(***************************************************************************)
EXTENDS Integers, Sequences, FiniteSets, TLC

VARIABLES
    argv,       \* sys.argv[1] as a path, or NoArg
    caps,       \* PIL_AVAILABLE, PYPDF2_AVAILABLE, MUTAGEN_AVAILABLE, PTG_AVAILABLE
    fs,         \* the filesystem: path -> file
    fs0,        \* the filesystem as main found it
    pc,         \* position in main and in the function it is running
    report,     \* the mapping last returned by an analyzer
    title,      \* the category that mapping belongs to
    fault,      \* what went wrong inside that analyzer ("none" if nothing)
    displayed,  \* titles print_metadata has printed, in order
    extractor,  \* the format extractor main selected
    h,          \* calculate_file_hashes: the dict h
    hoff,       \* calculate_file_hashes: read offset of f
    action,     \* the action code returned by interactive_clean_menu
    choice,     \* interactive_clean_menu_fallback: the stripped menu choice
    events,     \* confirmations read and I/O calls issued, in order
    i,          \* secure_wipe_file: pass index
    sz,         \* secure_wipe_file: sz
    buffer_size, \* secure_wipe_file: capacity of the write buffer of f
    pos,        \* secure_wipe_file: file position of f
    dirty,      \* secure_wipe_file: the buffer of f holds bytes not on disk
    op,         \* clean_*_metadata: the output path
    loaded,     \* clean_*_metadata: the content decoded from fp, held in memory
    res,        \* (succ, msg) of the cleaning function
    cleanings,  \* number of calls of perform_cleaning
    crashSite,  \* where an exception escaped main ("" if none)
    exitcode    \* process exit code (-1 while running)

vars == <<argv, caps, fs, fs0, pc, report, title, fault, displayed, extractor,
          h, hoff, action, choice, events, i, sz, buffer_size, pos, dirty,
          op, loaded, res,
          cleanings, crashSite, exitcode>>

-----------------------------------------------------------------------------
(* Bounds and program constants *)

MaxChunks == 1

bs == 65536

passes == 3

NoArg == <<>>
NoPath == <<>>

InputPaths ==
    { <<"photo", ".jpg">>, <<"photo", ".JPG">>, <<"doc", ".pdf">>,
      <<"song", ".mp3">>, <<"clip", ".mp4">>, <<"tool", ".exe">>,
      <<"README">> }

\* empty, smaller than every I/O buffer, between two buffer sizes, and k
\* chunks of bs bytes plus one byte
Sizes == {0, 10, 5000} \cup { k * bs + 1 : k \in 1..MaxChunks }

-----------------------------------------------------------------------------
(* Paths and strings *)

\* str.lower() on the extensions that occur
Lower(s) ==
    CASE s = ".JPG" -> ".jpg"
      [] s = "YES" -> "yes"
      [] s = "Yes" -> "yes"
      [] s = "DELETE" -> "delete"
      [] OTHER -> s

\* str.strip() on the console inputs that occur
Strip(s) ==
    CASE s = " yes " -> "yes"
      [] s = " DELETE " -> "DELETE"
      [] s = " 2 " -> "2"
      [] s = " " -> ""
      [] OTHER -> s

\* Path(fp).suffix
Suffix(fp) == IF Len(fp) > 1 THEN fp[Len(fp)] ELSE ""

\* str(Path(fp).with_suffix(''))
WithoutSuffix(fp) == IF Len(fp) > 1 THEN SubSeq(fp, 1, Len(fp) - 1) ELSE fp

ImageExts == {".jpg", ".jpeg", ".png", ".tiff", ".bmp", ".gif"}
PdfExts == {".pdf"}
AVExts == {".mp3", ".mp4", ".flac", ".ogg", ".wav", ".m4a", ".avi", ".mkv"}
AudioCleanExts == {".mp3", ".flac", ".ogg", ".m4a", ".wav"}

-----------------------------------------------------------------------------
(* Filesystem *)

Exists(f, p) == p \in DOMAIN f

WriteFile(f, p, file) ==
    [q \in DOMAIN f \cup {p} |-> IF q = p THEN file ELSE f[q]]

RemoveFile(f, p) == [q \in DOMAIN f \ {p} |-> f[q]]

\* a file opened for writing whose content has not been written completely
Torn == [size |-> 0, body |-> "torn", tags |-> FALSE, mtime |-> 1]

-----------------------------------------------------------------------------
(* Analyzers: each returns the report it hands to print_metadata and whether *)
(* an exception escapes it.  `out` is what the environment does inside it.    *)

Mimes == {"image/jpeg", "application/pdf", "application/octet-stream"}

\* the table `expected` of get_file_type_info
ExpectedExts(mime) ==
    CASE mime = "image/jpeg" -> {".jpg", ".jpeg"}
      [] mime = "image/png" -> {".png"}
      [] mime = "application/pdf" -> {".pdf"}
      [] mime = "text/plain" -> {".txt"}
      [] mime = "application/zip" -> {".zip"}
      [] OTHER -> {}

InExpected(mime) ==
    mime \in {"image/jpeg", "image/png", "application/pdf", "text/plain",
              "application/zip"}

TypeOuts == Mimes \cup {"ImportError", "Exception", "LateException"}

get_file_type_info(fp, out) ==
    LET ext == Lower(Suffix(fp)) IN
    CASE out = "ImportError" -> [report |-> {"Note"}, raised |-> FALSE]
      [] out = "Exception" -> [report |-> {"Error"}, raised |-> FALSE]
      [] out = "LateException" ->
            [report |-> {"MIME Type", "Error"}, raised |-> FALSE]
      [] OTHER ->
            [report |-> {"MIME Type", "File Type Description"} \cup
                 (IF InExpected(out) /\ ext \notin ExpectedExts(out)
                  THEN {IF ext # "" THEN "(!) Extension Mismatch"
                                    ELSE "(!) No Extension"}
                  ELSE {}),
             raised |-> FALSE]

\* md5.update / sha1.update / sha256.update of one chunk: h is not touched
HashChunk_eager(hd) == hd \cup {"MD5"}
HashChunk(hd) == hd

\* line 45
HashFinish(hd) == hd \cup {"MD5", "SHA-1", "SHA-256"}

\* line 47
HashError(hd) == hd \cup {"Error"}

\* lines 96-99 are two independent tests
StatOuts == {"ok", "ok_near", "ok_future", "ok_near_future", "OSError"}

get_file_system_metadata(out) ==
    IF out = "OSError"
    THEN [report |-> {}, raised |-> TRUE]
    ELSE [report |->
            {"Filename", "Full Path", "File Size", "Permissions (Octal)",
             "Permissions (String)", "Inode Number", "Device ID", "Hard Links",
             "User ID", "Group ID", "Birth Time", "Last Modified (mtime)",
             "Last Accessed (atime)", "Metadata Changed (ctime)", "Age (days)"}
            \cup (IF out \in {"ok_near", "ok_near_future"}
                  THEN {"(!) Timestamp Note"} ELSE {})
            \cup (IF out \in {"ok_future", "ok_near_future"}
                  THEN {"(!) Future Timestamp"} ELSE {}),
          raised |-> FALSE]

analyze_file_entropy_raising(file, out) ==
    IF out = "Exception" THEN [report |-> {}, raised |-> TRUE]
    ELSE [report |-> {"Entropy", "Analysis"}, raised |-> FALSE]
analyze_file_entropy(file, out) ==
    CASE out = "Exception" -> [report |-> {"Error"}, raised |-> FALSE]
      [] out # "Exception" /\ file.size = 0 ->
            [report |-> {"Entropy"}, raised |-> FALSE]
      [] OTHER -> [report |-> {"Entropy", "Analysis"}, raised |-> FALSE]

ImageOuts == {"ok", "IOError", "Exception"}

get_image_exif_metadata(pil, file, out) ==
    CASE ~pil -> [report |-> {"Note"}, raised |-> FALSE]
      [] pil /\ out = "IOError" -> [report |-> {}, raised |-> FALSE]
      [] pil /\ out = "Exception" -> [report |-> {"Error"}, raised |-> FALSE]
      [] OTHER ->
            [report |-> {"Image Format", "Image Mode", "Image Size"} \cup
                 (IF file.tags THEN {"Make", "GPS Data"} ELSE {"EXIF Status"}),
             raised |-> FALSE]

PdfOuts == {"ok", "Exception", "LateException"}

get_pdf_metadata(pypdf2, file, out) ==
    CASE ~pypdf2 -> [report |-> {"Note"}, raised |-> FALSE]
      [] pypdf2 /\ out = "Exception" -> [report |-> {"Error"}, raised |-> FALSE]
      [] pypdf2 /\ out = "LateException" ->
            [report |-> {"Number of Pages", "Encrypted", "Error"},
             raised |-> FALSE]
      [] OTHER ->
            [report |-> {"Number of Pages", "Encrypted"} \cup
                 (IF file.tags THEN {"Author", "Producer"} ELSE {}),
             raised |-> FALSE]

\* lines 150-157 in order: the fields m can receive from audio.info
InfoFields == <<"Duration", "Bitrate", "Sample Rate", "Channels">>

\* what mutagen does with the file: kind "None" is mutagen.File returning
\* None, info is the set of attributes audio.info has (by position in
\* InfoFields), and for kind "Exception" at is the step that raises: 0 is
\* mutagen.File, 1..4 the statement storing that field, 5 the tags
AVOuts ==
    { o \in [kind : {"ok", "None", "Exception"}, info : SUBSET (1..4),
             at : 0..5] :
        /\ o.kind = "None" => o.info = {}
        /\ o.kind # "Exception" => o.at = 0 }

\* the fields of audio.info stored in m before step k
Stored(info, k) == { InfoFields[j] : j \in { x \in info : x < k } }

get_audio_video_metadata(mutagen, file, out) ==
    CASE ~mutagen -> [report |-> {"Note"}, raised |-> FALSE]
      [] mutagen /\ out.kind = "None" ->
            [report |-> {"Note"}, raised |-> FALSE]
      [] mutagen /\ out.kind = "Exception" ->
            [report |-> Stored(out.info, out.at) \cup {"Error"},
             raised |-> FALSE]
      [] OTHER ->
            [report |-> Stored(out.info, 5) \cup
                 (IF file.tags THEN {"TIT2", "TPE1"} ELSE {}),
             raised |-> FALSE]

\* the if / elif chain of main, lines 395-401
Extractor(ext, pil) ==
    CASE ext \in ImageExts /\ pil -> "image"
      [] ~(ext \in ImageExts /\ pil) /\ ext \in PdfExts -> "pdf"
      [] ~(ext \in ImageExts /\ pil) /\ ext \notin PdfExts /\ ext \in AVExts -> "av"
      [] OTHER -> "none"

-----------------------------------------------------------------------------
(* Initial states: the command line, the installed libraries, the target.   *)

\* an empty file carries no tags
Files ==
    { f \in [size : Sizes, body : {"payload"}, tags : BOOLEAN, mtime : {0}] :
        f.size = 0 => ~f.tags }

\* a decoder cannot succeed on an empty file
Decodable(file) == file.size > 0

Caps == [PIL : BOOLEAN, PYPDF2 : BOOLEAN, MUTAGEN : BOOLEAN, PTG : BOOLEAN]

NoFile == [size |-> 0, body |-> "", tags |-> FALSE, mtime |-> 0]

NoRes == [succ |-> FALSE, msg |-> ""]

Init ==
    /\ argv \in InputPaths \cup {NoArg}
    /\ caps \in Caps
    /\ \/ fs = << >>
       \/ /\ argv # NoArg
          /\ \E file \in Files : fs = [q \in {argv} |-> file]
    /\ fs0 = fs
    /\ pc = "start"
    /\ report = {} /\ title = "" /\ fault = "none" /\ displayed = << >>
    /\ extractor = ""
    /\ h = {} /\ hoff = 0
    /\ action = "" /\ choice = "" /\ events = << >>
    /\ i = 0 /\ sz = 0 /\ buffer_size = 0 /\ pos = 0 /\ dirty = FALSE
    /\ op = NoPath /\ loaded = NoFile /\ res = NoRes
    /\ cleanings = 0 /\ crashSite = "" /\ exitcode = -1

fp == argv

ext == Lower(Suffix(fp))

analysisVars == <<report, title, fault, displayed, extractor, h, hoff>>
menuVars == <<action, choice>>
fileVars == <<buffer_size, pos, dirty>>
cleanVars == <<i, sz, fileVars, op, loaded, res, cleanings>>
envVars == <<argv, caps, fs0>>

-----------------------------------------------------------------------------
(* main, lines 371-404: the analysis pipeline *)

\* lines 372-383
MainArgs ==
    /\ pc = "start"
    /\ IF argv = NoArg \/ ~Exists(fs, fp)
       THEN pc' = "exit" /\ exitcode' = 1
       ELSE pc' = "type" /\ exitcode' = exitcode
    /\ UNCHANGED <<envVars, fs, analysisVars, menuVars, cleanVars, events,
                   crashSite>>

FaultOf(out) ==
    IF out \in {"ImportError", "Exception", "LateException", "OSError",
                "IOError", "None", "NotInstalled", "ValueError"}
    THEN out ELSE "none"

\* print_metadata(r.report, t) for the mapping an analyzer returned, or the
\* exception it raised leaving main
Show(r, t, out, next) ==
    /\ report' = r.report
    /\ title' = t
    /\ fault' = FaultOf(out)
    /\ IF r.raised
       THEN /\ pc' = "crashed" /\ crashSite' = t /\ exitcode' = 1
            /\ displayed' = displayed
       ELSE /\ pc' = next
            /\ displayed' = IF r.report # {} THEN Append(displayed, t)
                                             ELSE displayed
            /\ UNCHANGED <<crashSite, exitcode>>

\* line 389
TypeInfo ==
    /\ pc = "type"
    /\ \E out \in TypeOuts :
          Show(get_file_type_info(fp, out), "File Type Identification", out,
               "hash_open")
    /\ UNCHANGED <<envVars, fs, extractor, h, hoff, menuVars, cleanVars, events>>

\* calculate_file_hashes returns h; line 391 prints it
HashReturn(hd, out) ==
    /\ h' = hd
    /\ Show([report |-> hd, raised |-> FALSE], "Cryptographic Hashes", out,
            "fsmeta")

\* lines 37-40: h = OrderedDict(), the three digest objects, open(fp, 'rb');
\* the digest objects are made outside the try, so hashlib refusing an
\* algorithm (ValueError) leaves calculate_file_hashes and main
HashOpen ==
    /\ pc = "hash_open"
    /\ \/ /\ pc' = "hash_read" /\ hoff' = 0 /\ h' = {}
          /\ UNCHANGED <<report, title, fault, displayed, crashSite, exitcode>>
       \/ /\ HashReturn(HashError({}), "Exception")
          /\ hoff' = hoff
       \/ /\ Show([report |-> {}, raised |-> TRUE], "Cryptographic Hashes",
                  "ValueError", "fsmeta")
          /\ UNCHANGED <<h, hoff>>
    /\ UNCHANGED <<envVars, fs, extractor, menuVars, cleanVars, events>>

ChunkLen(file, off) ==
    IF file.size - off < bs THEN file.size - off ELSE bs

\* lines 41-45: one f.read(bs); the loop ends at the empty read
HashRead ==
    /\ pc = "hash_read"
    /\ \/ /\ ChunkLen(fs[fp], hoff) > 0
          /\ hoff' = hoff + ChunkLen(fs[fp], hoff)
          /\ h' = HashChunk(h)
          /\ UNCHANGED <<pc, report, title, fault, displayed, crashSite,
                         exitcode>>
       \/ /\ ChunkLen(fs[fp], hoff) = 0
          /\ HashReturn(HashFinish(h), "ok")
          /\ hoff' = hoff
       \/ /\ HashReturn(HashError(h), "Exception")
          /\ hoff' = hoff
    /\ UNCHANGED <<envVars, fs, extractor, menuVars, cleanVars, events>>

\* line 392
FsMeta ==
    /\ pc = "fsmeta"
    /\ \E out \in StatOuts :
          Show(get_file_system_metadata(out), "File System Metadata", out,
               "entropy")
    /\ UNCHANGED <<envVars, fs, extractor, h, hoff, menuVars, cleanVars, events>>

\* line 393
Entropy ==
    /\ pc = "entropy"
    /\ \E out \in {"ok", "Exception"} :
          Show(analyze_file_entropy(fs[fp], out), "Entropy Analysis", out,
               "extract")
    /\ UNCHANGED <<envVars, fs, extractor, h, hoff, menuVars, cleanVars, events>>

\* lines 395-397
ExtractImage ==
    /\ pc = "extract"
    /\ Extractor(ext, caps.PIL) = "image"
    /\ extractor' = "image"
    /\ \E out \in IF ~caps.PIL THEN {"NotInstalled"}
                 ELSE IF Decodable(fs[fp]) THEN ImageOuts
                 ELSE ImageOuts \ {"ok"} :
          Show(get_image_exif_metadata(caps.PIL, fs[fp], out),
               "Image Metadata (EXIF)", out, "complete")
    /\ UNCHANGED <<envVars, fs, h, hoff, menuVars, cleanVars, events>>

\* lines 398-399
ExtractPdf ==
    /\ pc = "extract"
    /\ Extractor(ext, caps.PIL) = "pdf"
    /\ extractor' = "pdf"
    /\ \E out \in IF ~caps.PYPDF2 THEN {"NotInstalled"}
                 ELSE IF Decodable(fs[fp]) THEN PdfOuts
                 ELSE {"Exception"} :
          Show(get_pdf_metadata(caps.PYPDF2, fs[fp], out), "PDF Metadata", out,
               "complete")
    /\ UNCHANGED <<envVars, fs, h, hoff, menuVars, cleanVars, events>>

\* lines 400-401
\* mutagen is not called when it is not installed
NotInstalledAV == [kind |-> "None", info |-> {}, at |-> 0]

ExtractAV ==
    /\ pc = "extract"
    /\ Extractor(ext, caps.PIL) = "av"
    /\ extractor' = "av"
    /\ \E out \in AVOuts :
          /\ IF ~caps.MUTAGEN
             THEN out = NotInstalledAV
             ELSE /\ fs[fp].tags => out.kind # "None"
                  /\ ~Decodable(fs[fp]) => out.kind # "ok" /\ out.info = {}
          /\ Show(get_audio_video_metadata(caps.MUTAGEN, fs[fp], out),
                  "Audio/Video Metadata",
                  IF caps.MUTAGEN THEN out.kind ELSE "NotInstalled",
                  "complete")
    /\ UNCHANGED <<envVars, fs, h, hoff, menuVars, cleanVars, events>>

\* no branch of lines 395-401 is taken
ExtractNone ==
    /\ pc = "extract"
    /\ Extractor(ext, caps.PIL) = "none"
    /\ extractor' = "none"
    /\ pc' = "complete"
    /\ UNCHANGED <<envVars, fs, report, title, fault, displayed, h, hoff,
                   menuVars, cleanVars, events, crashSite, exitcode>>

\* lines 402-405: the banner, then interactive_clean_menu is entered
AnalysisComplete ==
    /\ pc = "complete"
    /\ pc' = IF caps.PTG THEN "menu_ptg" ELSE "menu_fallback"
    /\ report' = {} /\ title' = "" /\ fault' = "none"
    /\ UNCHANGED <<envVars, fs, displayed, extractor, h, hoff, menuVars,
                   cleanVars, events, crashSite, exitcode>>

-----------------------------------------------------------------------------
(* interactive_clean_menu, lines 239-307 *)

\* a call the program issued; off is the file position a write starts at
EvAt(call, what, pass, off, len) ==
    [call |-> call, what |-> what, pass |-> pass, offset |-> off, len |-> len]

\* a call that takes no file position, or writes a file from its start
Ev(call, what, pass, len) == EvAt(call, what, pass, 0, len)

Buttons == {"clean_copy", "clean_overwrite", "secure_wipe", "skip", "closed"}

ChoiceInputs == {"1", "2", " 2 ", "3", "4", "x"}

ConfirmInputs ==
    {"yes", "YES", " yes ", "no", "DELETE", " DELETE ", "delete", ""}

\* lines 243-257: the onclick handler of the button pressed; closing the
\* window without a click leaves result['action'] as initialised
OnClick(button) == IF button = "closed" THEN "skip" ELSE button

\* the terminal read of a menu raises (input() at end of input raises
\* EOFError, manager.run() whatever the toolkit raises) and nothing catches
\* it: it leaves interactive_clean_menu and main before perform_cleaning is
\* called
InputCrash ==
    /\ pc' = "crashed"
    /\ crashSite' = "interactive_clean_menu"
    /\ exitcode' = 1

\* lines 239-274
MenuPtg ==
    /\ pc = "menu_ptg"
    /\ \/ /\ \E button \in Buttons : action' = OnClick(button)
          /\ pc' = "perform"
          /\ UNCHANGED <<crashSite, exitcode>>
       \/ /\ InputCrash
          /\ action' = action
    /\ UNCHANGED <<envVars, fs, analysisVars, choice, cleanVars, events>>

\* lines 284-287, 294, 301
MenuChoice ==
    /\ pc = "menu_fallback"
    /\ \/ /\ \E raw \in ChoiceInputs :
                /\ choice' = Strip(raw)
                /\ CASE Strip(raw) = "1" ->
                            action' = "clean_copy" /\ pc' = "perform"
                     [] Strip(raw) \in {"2", "3"} ->
                            action' = action /\ pc' = "menu_confirm"
                     [] OTHER -> action' = "skip" /\ pc' = "perform"
          /\ UNCHANGED <<crashSite, exitcode>>
       \/ /\ InputCrash
          /\ UNCHANGED <<choice, action>>
    /\ UNCHANGED <<envVars, fs, analysisVars, cleanVars, events>>

\* lines 288-293 and 295-300
Confirmed(ch, raw) ==
    IF ch = "2" THEN Lower(Strip(raw)) = "yes" ELSE Strip(raw) = "DELETE"

MenuConfirm ==
    /\ pc = "menu_confirm"
    /\ \/ /\ \E raw \in ConfirmInputs :
                /\ events' = Append(events,
                       Ev("confirm",
                          IF choice = "2" THEN Lower(Strip(raw)) ELSE Strip(raw),
                          0, 0))
                /\ action' = IF ~Confirmed(choice, raw) THEN "skip"
                             ELSE IF choice = "2" THEN "clean_overwrite"
                             ELSE "secure_wipe"
          /\ pc' = "perform"
          /\ UNCHANGED <<crashSite, exitcode>>
       \/ /\ InputCrash
          /\ UNCHANGED <<events, action>>
    /\ UNCHANGED <<envVars, fs, analysisVars, choice, cleanVars>>

-----------------------------------------------------------------------------
(* perform_cleaning, lines 309-354 *)

\* the extension tests of lines 329, 333, 342
CleanKind_avset(e) ==
    CASE e \in ImageExts -> "image"
      [] e \in PdfExts -> "pdf"
      [] e \in AVExts -> "audio"
      [] OTHER -> "unsupported"
CleanKind(e) ==
    CASE e \in ImageExts -> "image"
      [] e \in PdfExts -> "pdf"
      [] e \in AudioCleanExts -> "audio"
      [] OTHER -> "unsupported"

\* lines 331 and 344
CleanedPath(p, e) == Append(Append(WithoutSuffix(p), ".cleaned"), e)

\* the op handed to the cleaning function, lines 327-345 (NoPath is None)
OutputArg(act, p, e) ==
    CASE CleanKind(e) = "pdf" ->
            IF act = "clean_overwrite"
            THEN Append(Append(p, ".temp"), ".pdf") ELSE NoPath
      [] CleanKind(e) \in {"image", "audio"} ->
            IF act = "clean_copy" THEN CleanedPath(p, e) ELSE NoPath
      [] OTHER -> NoPath

\* where perform_cleaning goes for an action code, lines 310-349
Dispatch_noskip(act, e) ==
    CASE act = "secure_wipe" -> "wipe_open"
      [] act # "secure_wipe" /\ CleanKind(e) = "image" -> "img_load"
      [] act # "secure_wipe" /\ CleanKind(e) = "pdf" -> "pdf_load"
      [] act # "secure_wipe" /\ CleanKind(e) = "audio" -> "aud_copy"
      [] OTHER -> "done"
Dispatch(act, e) ==
    CASE act = "skip" -> "done"
      [] act = "secure_wipe" -> "wipe_open"
      [] act \in {"clean_copy", "clean_overwrite"} /\ CleanKind(e) = "image" ->
            "img_load"
      [] act \in {"clean_copy", "clean_overwrite"} /\ CleanKind(e) = "pdf" ->
            "pdf_load"
      [] act \in {"clean_copy", "clean_overwrite"} /\ CleanKind(e) = "audio" ->
            "aud_copy"
      [] OTHER -> "done"

\* line 406 and lines 309-349 up to the call of the cleaning function
PerformCleaning ==
    /\ pc = "perform"
    /\ cleanings' = cleanings + 1
    /\ pc' = Dispatch(action, ext)
    /\ op' = OutputArg(action, fp, ext)
    /\ exitcode' = IF Dispatch(action, ext) = "done" THEN 0 ELSE exitcode
    /\ events' = IF action # "skip" /\ Dispatch(action, ext) = "done"
                 THEN Append(events,
                        Ev("print", "Metadata cleaning not supported", 0, 0))
                 ELSE events
    /\ UNCHANGED <<envVars, fs, analysisVars, menuVars, i, sz,
                   fileVars, loaded, res,
                   crashSite>>

\* the cleaning function returns (False, m)
Fail(m) == res' = [succ |-> FALSE, msg |-> m] /\ pc' = "result"

\* the cleaning function returns (True, m)
Succeed(m) == res' = [succ |-> TRUE, msg |-> m] /\ pc' = "result"

\* lines 319-323 and 350-354, then main returns
CleanResult ==
    /\ pc = "result"
    /\ pc' = "done"
    /\ exitcode' = 0
    /\ UNCHANGED <<envVars, fs, analysisVars, menuVars, cleanVars, events,
                   crashSite>>

-----------------------------------------------------------------------------
(* secure_wipe_file, lines 225-237 *)

\* line 231: what pass i writes
WipePattern(n) == IF n # 1 THEN "random" ELSE "0xFF"

Overwritten(len, body) ==
    [size |-> len, body |-> body, tags |-> FALSE, mtime |-> 1]

\* line 230: f.seek(0) moves the file position of f
seek_absent(position, offset) == position
seek(position, offset) == offset

\* the file after len bytes of body were written at position at
WriteAt(file, at, len, body) ==
    IF at = 0 /\ len >= file.size
    THEN Overwritten(len, body)
    ELSE [size |-> IF at + len > file.size THEN at + len ELSE file.size,
          body |-> "torn", tags |-> file.tags, mtime |-> 1]

\* f is a buffered file: a write of more bytes than its buffer holds goes to
\* the disk in f.write, a smaller one stays in the buffer until f.flush, and
\* a write of no bytes changes nothing
AtWrite(len, size) == len > size
AtFlush(len, size) == len > 0 /\ len <= size

\* line 228: open() sizes the buffer of f from the block size the platform
\* reports for the file
BlockSizes == {4096, 8192, 131072}

\* the file after only a part of a transfer of len bytes reached the disk
Partly(f, p, len) == WriteFile(f, p, Overwritten(len, "torn"))

\* lines 227-228
WipeOpen ==
    /\ pc = "wipe_open"
    /\ \/ /\ sz' = fs[fp].size /\ i' = 0 /\ pc' = "wipe_write" /\ res' = res
          /\ buffer_size' \in BlockSizes /\ pos' = 0 /\ dirty' = FALSE
       \/ /\ Fail("Error during secure wipe")
          /\ UNCHANGED <<sz, i, fileVars>>
    /\ UNCHANGED <<envVars, fs, analysisVars, menuVars, op, loaded, cleanings,
                   events, crashSite, exitcode>>

\* lines 229-231: seek(0), then the write of pass i. A write larger than the
\* buffer goes to the disk at once; when the disk takes only a part of it,
\* f.write keeps the rest in the buffer and returns normally
WipeWrite ==
    /\ pc = "wipe_write"
    /\ i < passes
    /\ LET at == seek(pos, 0)
       IN  \/ /\ \/ /\ ~AtWrite(sz, buffer_size)
                    /\ fs' = fs
                    /\ dirty' = AtFlush(sz, buffer_size)
                 \/ /\ AtWrite(sz, buffer_size)
                    /\ fs' = WriteFile(fs, fp,
                                 WriteAt(fs[fp], at, sz, WipePattern(i)))
                    /\ dirty' = FALSE
                 \/ /\ AtWrite(sz, buffer_size)
                    /\ fs' = Partly(fs, fp, at + sz)
                    /\ dirty' = TRUE
              /\ pos' = at + sz
              /\ events' = Append(events,
                               EvAt("write", WipePattern(i), i, at, sz))
              /\ pc' = "wipe_flush" /\ res' = res
           \/ /\ Fail("Error during secure wipe")
              /\ fs' \in {fs} \cup (IF AtWrite(sz, buffer_size)
                                 THEN {Partly(fs, fp, at + sz)} ELSE {})
              /\ UNCHANGED <<events, pos, dirty>>
    /\ UNCHANGED <<envVars, analysisVars, menuVars, i, sz, buffer_size, op,
                   loaded, cleanings, crashSite, exitcode>>

\* line 232: the bytes in the buffer go to the disk; when f.flush raises,
\* leaving the with block closes f, which flushes the buffer once more and
\* may get the whole pattern to the disk
WipeFlush ==
    /\ pc = "wipe_flush"
    /\ LET whole == WriteFile(fs, fp,
                        WriteAt(fs[fp], pos - sz, sz, WipePattern(i)))
       IN  \/ /\ fs' = IF dirty THEN whole ELSE fs
              /\ dirty' = FALSE
              /\ events' = Append(events, Ev("flush", "", i, 0))
              /\ pc' = "wipe_fsync" /\ res' = res
           \/ /\ Fail("Error during secure wipe")
              /\ fs' \in {fs} \cup
                     (IF dirty THEN {Partly(fs, fp, pos), whole} ELSE {})
              /\ UNCHANGED <<events, dirty>>
    /\ UNCHANGED <<envVars, analysisVars, menuVars, i, sz, buffer_size, pos,
                   op, loaded, cleanings, crashSite, exitcode>>

\* line 233, and the loop test of line 229
WipeFsync ==
    /\ pc = "wipe_fsync"
    /\ \/ /\ events' = Append(events, Ev("fsync", "", i, 0))
          /\ i' = i + 1
          /\ pc' = IF i + 1 < passes THEN "wipe_write" ELSE "wipe_remove"
          /\ res' = res
       \/ /\ Fail("Error during secure wipe") /\ events' = events /\ i' = i
    /\ UNCHANGED <<envVars, fs, analysisVars, menuVars, sz, fileVars, op,
                   loaded,
                   cleanings, crashSite, exitcode>>

\* lines 234-235
WipeRemove ==
    /\ pc = "wipe_remove"
    /\ \/ /\ fs' = RemoveFile(fs, fp)
          /\ events' = Append(events, Ev("unlink", "", i, 0))
          /\ Succeed("File securely wiped")
       \/ /\ Fail("Error during secure wipe") /\ UNCHANGED <<fs, events>>
    /\ UNCHANGED <<envVars, analysisVars, menuVars, i, sz,
                   fileVars, op, loaded,
                   cleanings, crashSite, exitcode>>

-----------------------------------------------------------------------------
(* clean_image_metadata, lines 181-192 *)

\* the re-encoded content: the same payload without tags
Stripped(file) ==
    [size |-> file.size, body |-> "payload", tags |-> FALSE, mtime |-> 1]

\* lines 182-188: capability test, op = op or fp, decode of the pixels
CleanImageLoad ==
    /\ pc = "img_load"
    /\ IF ~caps.PIL
       THEN Fail("Pillow library not available") /\ UNCHANGED <<op, loaded>>
       ELSE \/ /\ Decodable(fs[fp])
               /\ op' = IF op = NoPath THEN fp ELSE op
               /\ loaded' = fs[fp]
               /\ pc' = "img_save" /\ res' = res
            \/ /\ Fail("Error cleaning image metadata")
               /\ UNCHANGED <<op, loaded>>
    /\ UNCHANGED <<envVars, fs, analysisVars, menuVars, i, sz,
                   fileVars, cleanings,
                   events, crashSite, exitcode>>

\* line 189: clean.save(op) opens op for writing
CleanImageSaveOpen ==
    /\ pc = "img_save"
    /\ \/ /\ fs' = WriteFile(fs, op, Torn)
          /\ events' = Append(events, Ev("create", "", 0, 0))
          /\ pc' = "img_write" /\ res' = res
       \/ /\ Fail("Error cleaning image metadata") /\ UNCHANGED <<fs, events>>
    /\ UNCHANGED <<envVars, analysisVars, menuVars, i, sz,
                   fileVars, op, loaded,
                   cleanings, crashSite, exitcode>>

\* lines 189-190: the encoder writes op and closes it; a failure can come
\* before or after the last byte, and on a failure the imaging library may
\* remove a file that save itself created
CleanImageSaveWrite ==
    /\ pc = "img_write"
    /\ \/ /\ fs' = WriteFile(fs, op, Stripped(loaded))
          /\ events' = Append(events, Ev("write", "stripped", 0, loaded.size))
          /\ Succeed("Metadata cleaned successfully")
       \/ /\ Fail("Error cleaning image metadata")
          /\ fs' \in {fs, WriteFile(fs, op, Stripped(loaded))} \cup
                 (IF op # fp THEN {RemoveFile(fs, op)} ELSE {})
          /\ events' = events
    /\ UNCHANGED <<envVars, analysisVars, menuVars, i, sz,
                   fileVars, op, loaded,
                   cleanings, crashSite, exitcode>>

-----------------------------------------------------------------------------
(* clean_pdf_metadata, lines 194-208, and lines 334-341 of perform_cleaning *)

\* lines 195-203: capability test, op = op or fp + ".cleaned.pdf", parse
CleanPdfLoad ==
    /\ pc = "pdf_load"
    /\ IF ~caps.PYPDF2
       THEN Fail("PyPDF2 library not available") /\ UNCHANGED <<op, loaded>>
       ELSE \/ /\ Decodable(fs[fp])
               /\ op' = IF op = NoPath
                        THEN Append(Append(fp, ".cleaned"), ".pdf") ELSE op
               /\ loaded' = fs[fp]
               /\ pc' = "pdf_out" /\ res' = res
            \/ /\ Fail("Error cleaning PDF metadata")
               /\ UNCHANGED <<op, loaded>>
    /\ UNCHANGED <<envVars, fs, analysisVars, menuVars, i, sz,
                   fileVars, cleanings,
                   events, crashSite, exitcode>>

\* line 204: open(op, 'wb')
CleanPdfOpenOut ==
    /\ pc = "pdf_out"
    /\ \/ /\ fs' = WriteFile(fs, op, Torn)
          /\ events' = Append(events, Ev("create", "", 0, 0))
          /\ pc' = "pdf_write" /\ res' = res
       \/ /\ Fail("Error cleaning PDF metadata") /\ UNCHANGED <<fs, events>>
    /\ UNCHANGED <<envVars, analysisVars, menuVars, i, sz,
                   fileVars, op, loaded,
                   cleanings, crashSite, exitcode>>

\* lines 205-206, and the test of line 337 in the caller; a failure can
\* come before the last byte or when out is closed after it
CleanPdfWrite ==
    /\ pc = "pdf_write"
    /\ \/ /\ fs' = WriteFile(fs, op, Stripped(loaded))
          /\ events' = Append(events, Ev("write", "stripped", 0, loaded.size))
          /\ res' = [succ |-> TRUE, msg |-> "Cleaned PDF saved"]
          /\ pc' = IF action = "clean_overwrite" THEN "pdf_replace"
                                                 ELSE "result"
       \/ /\ Fail("Error cleaning PDF metadata")
          /\ fs' \in {fs, WriteFile(fs, op, Stripped(loaded))}
          /\ events' = events
    /\ UNCHANGED <<envVars, analysisVars, menuVars, i, sz,
                   fileVars, op, loaded,
                   cleanings, crashSite, exitcode>>

\* lines 338-339: os.replace(tp, fp), outside any try
PdfReplace ==
    /\ pc = "pdf_replace"
    /\ \/ /\ fs' = RemoveFile(WriteFile(fs, fp, fs[op]), op)
          /\ events' = Append(events, Ev("rename", "", 0, 0))
          /\ Succeed("PDF metadata cleaned (original overwritten)")
          /\ UNCHANGED <<crashSite, exitcode>>
       \/ /\ pc' = "crashed" /\ crashSite' = "perform_cleaning"
          /\ exitcode' = 1
          /\ UNCHANGED <<fs, events, res>>
    /\ UNCHANGED <<envVars, analysisVars, menuVars, i, sz,
                   fileVars, op, loaded,
                   cleanings>>

-----------------------------------------------------------------------------
(* clean_audio_metadata, lines 210-223 *)

\* the copy of a file before its timestamps were set to the source's
Fresh(file) == [file EXCEPT !.mtime = 1]

\* lines 211-215: capability test, op = op or fp + ".cleaned" + suffix,
\* shutil.copy2(fp, op), which copies the bytes, then sets the timestamps,
\* then the other file metadata, and can fail in each step
CleanAudioCopy ==
    /\ pc = "aud_copy"
    /\ IF ~caps.MUTAGEN
       THEN Fail("mutagen library not available") /\ UNCHANGED <<op, fs, events>>
       ELSE LET out == IF op = NoPath
                       THEN Append(Append(fp, ".cleaned"), Suffix(fp))
                       ELSE op
            IN  \/ /\ op' = out
                   /\ fs' = WriteFile(fs, out, fs[fp])
                   /\ events' = Append(events, Ev("copy", "", 0, fs[fp].size))
                   /\ pc' = "aud_tags" /\ res' = res
                \/ /\ Fail("Error cleaning audio metadata")
                   /\ op' = out
                   /\ fs' \in {fs, WriteFile(fs, out, Torn),
                                WriteFile(fs, out, Fresh(fs[fp])),
                                WriteFile(fs, out, fs[fp])}
                   /\ events' = events
    /\ UNCHANGED <<envVars, analysisVars, menuVars, i, sz,
                   fileVars, loaded, cleanings,
                   crashSite, exitcode>>

\* lines 216-217 and 221: mutagen.File(op) and the test of its tags (a file
\* the tag reader does not recognise carries no tags it could find)
CleanAudioTags ==
    /\ pc = "aud_tags"
    /\ \/ /\ fs[op].tags
          /\ pc' = "aud_save" /\ res' = res
       \/ /\ ~fs[op].tags
          /\ Succeed("No metadata tags found to remove")
       \/ Fail("Error cleaning audio metadata")
    /\ UNCHANGED <<envVars, fs, analysisVars, menuVars, i, sz,
                   fileVars, op, loaded,
                   cleanings, events, crashSite, exitcode>>

\* lines 218-220: audio.delete() removes the tags from op on disk, then
\* audio.save(); either call can raise
CleanAudioSave ==
    /\ pc = "aud_save"
    /\ \/ /\ fs' = WriteFile(fs, op, Stripped(fs[op]))
          /\ events' = Append(events, Ev("write", "stripped", 0, fs[op].size))
          /\ Succeed("Cleaned audio saved")
       \/ /\ Fail("Error cleaning audio metadata")
          /\ fs' \in {fs, WriteFile(fs, op, Overwritten(fs[op].size, "torn")),
                       WriteFile(fs, op, Stripped(fs[op]))}
          /\ events' = events
    /\ UNCHANGED <<envVars, analysisVars, menuVars, i, sz,
                   fileVars, op, loaded,
                   cleanings, crashSite, exitcode>>

-----------------------------------------------------------------------------

Next ==
    \/ MainArgs \/ TypeInfo \/ HashOpen \/ HashRead \/ FsMeta \/ Entropy
    \/ ExtractImage \/ ExtractPdf \/ ExtractAV \/ ExtractNone
    \/ AnalysisComplete
    \/ MenuPtg \/ MenuChoice \/ MenuConfirm
    \/ PerformCleaning \/ CleanResult
    \/ WipeOpen \/ WipeWrite \/ WipeFlush \/ WipeFsync \/ WipeRemove
    \/ CleanImageLoad \/ CleanImageSaveOpen \/ CleanImageSaveWrite
    \/ CleanPdfLoad \/ CleanPdfOpenOut \/ CleanPdfWrite \/ PdfReplace
    \/ CleanAudioCopy \/ CleanAudioTags \/ CleanAudioSave

Spec == Init /\ [][Next]_vars

-----------------------------------------------------------------------------
(* Properties *)

IsPrefix(s, t) == Len(s) <= Len(t) /\ SubSeq(t, 1, Len(s)) = s

IsWipeCall(e) == e.call \in {"write", "flush", "fsync", "unlink"}

IsIOCall(e) == e.call \in {"write", "flush", "fsync", "unlink", "create",
                           "copy", "rename"}

WipeCalls == SelectSeq(events, IsWipeCall)

\* the event order the 3-pass wipe of a file of n bytes must show
ExpectedWipe(n) ==
    << Ev("write", "random", 0, n), Ev("flush", "", 0, 0), Ev("fsync", "", 0, 0),
       Ev("write", "0xFF", 1, n),   Ev("flush", "", 1, 0), Ev("fsync", "", 1, 0),
       Ev("write", "random", 2, n), Ev("flush", "", 2, 0), Ev("fsync", "", 2, 0),
       Ev("unlink", "", 3, 0) >>

Returned == pc \in {"result", "done"}

\* C1: a 3-pass secure wipe of a file of N bytes issues, in this order, a
\* write of N random bytes at offset 0, flush, fsync, a write of N bytes 0xFF
\* at offset 0, flush, fsync, a write of N random bytes at offset 0, flush,
\* fsync, and only then the unlink; every state of the wipe shows a prefix of
\* that order, every write starts at the position the seek of its pass left
\* (0), after the flush of a pass a file of N > 0 bytes holds what that pass
\* wrote, and after a successful return the path is gone.
C1_WipeOrder ==
    action = "secure_wipe" =>
        LET n == fs0[fp].size
            w == WipeCalls
        IN  /\ IsPrefix(w, ExpectedWipe(n))
            /\ \A k \in DOMAIN w : w[k].offset = 0
            /\ pc \in {"wipe_flush", "wipe_fsync"} => pos = n
            /\ (w # << >> /\ w[Len(w)].call \in {"flush", "fsync"}
                  /\ Exists(fs, fp) /\ fs[fp].body # "torn") =>
                   fs[fp] = IF n = 0 THEN fs0[fp]
                            ELSE Overwritten(n,
                                     ExpectedWipe(n)[3 * w[Len(w)].pass + 1].what)
            /\ ~Exists(fs, fp) => w = ExpectedWipe(n)
            /\ (Returned /\ res.succ) =>
                   w = ExpectedWipe(n) /\ ~Exists(fs, fp)

C1_Witness ==
    /\ pc = "done" /\ action = "secure_wipe" /\ res.succ
    /\ fs0[fp].size > 0 /\ ~Exists(fs, fp) /\ Len(WipeCalls) = 10

\* C2: the menu returns clean_overwrite only after a confirmation "yes" was
\* read and secure_wipe only after a confirmation "DELETE" was read.
C2_ConfirmedBeforeDestructive ==
    /\ action = "clean_overwrite" =>
           \E k \in DOMAIN events : events[k] = Ev("confirm", "yes", 0, 0)
    /\ action = "secure_wipe" =>
           \E k \in DOMAIN events : events[k] = Ev("confirm", "DELETE", 0, 0)

CleanExts == ImageExts \cup PdfExts \cup AudioCleanExts

\* C3: during clean_overwrite of a supported format the original path never
\* holds a partially written file, and after a successful clean_overwrite it
\* holds the stripped result.
C3_OverwriteIsAtomic ==
    (action = "clean_overwrite" /\ ext \in CleanExts /\ cleanings = 1) =>
        /\ Exists(fs, fp) /\ fs[fp].body # "torn"
        /\ (pc = "done" /\ res.succ) =>
               fs[fp].body = "payload" /\ ~fs[fp].tags

\* C4: after a successful clean_copy of a supported format the stripped
\* duplicate is at <stem>.cleaned<ext> and the original is unchanged.
C4_CopyAtDerivedPath ==
    (action = "clean_copy" /\ ext \in CleanExts /\ pc = "done" /\ res.succ) =>
        LET d == Append(Append(WithoutSuffix(fp), ".cleaned"), Suffix(fp))
        IN  /\ Exists(fs, d)
            /\ fs[d].body = "payload" /\ ~fs[d].tags
            /\ fs[fp] = fs0[fp]

CleaningFailed ==
    \/ pc = "done" /\ ~res.succ /\ res.msg # ""
    \/ crashSite = "perform_cleaning"

\* C5: when a cleaning or wipe path fails, it returns success = false with a
\* message, the original is not partially written, and no partial output and
\* no temporary file remains.
C5_FailureLeavesNothingPartial ==
    CleaningFailed =>
        /\ pc = "done" /\ ~res.succ /\ res.msg # ""
        /\ \A p \in DOMAIN fs : fs[p].body # "torn"
        /\ ~Exists(fs, Append(Append(fp, ".temp"), ".pdf"))

\* C6: clean_copy or clean_overwrite on a file whose lower-cased extension is
\* in none of the cleaning extension sets changes nothing on disk (no byte, no
\* modification time, no new file) and reports "not supported".
C6_UnsupportedNoMutation ==
    (action \in {"clean_copy", "clean_overwrite"} /\ ext \notin CleanExts) =>
        /\ fs = fs0
        /\ \A k \in DOMAIN events : ~IsIOCall(events[k])
        /\ pc = "done" =>
               /\ events # << >>
               /\ events[Len(events)] =
                      Ev("print", "Metadata cleaning not supported", 0, 0)
               /\ res = NoRes /\ exitcode = 0

C6_Witness ==
    /\ pc = "done" /\ action = "clean_overwrite" /\ ext = ".exe"
    /\ cleanings = 1 /\ fs = fs0
    /\ events[Len(events)] = Ev("print", "Metadata cleaning not supported", 0, 0)

Unconditional ==
    << "File Type Identification", "Cryptographic Hashes",
       "File System Metadata", "Entropy Analysis" >>

BeforeExtract ==
    {"start", "exit", "type", "hash_open", "hash_read", "fsmeta", "entropy"}

\* where an exception can leave main once the analysis is over
AfterAnalysis == {"", "interactive_clean_menu", "perform_cleaning"}

LastDisplayed == IF displayed = << >> THEN "" ELSE displayed[Len(displayed)]

\* C7 as stated: every failure inside the type classifier, digest engine,
\* entropy analyzer or selected extractor shows as an Error or Note field of
\* that category's displayed report; only the stat failure leaves main.
C7_FailureIsErrorOrNoteField ==
    /\ fault \notin {"none", "OSError"} =>
           /\ crashSite = ""
           /\ report \cap {"Error", "Note"} # {}
           /\ LastDisplayed = title
    /\ crashSite \notin AfterAnalysis =>
           crashSite = "File System Metadata" /\ fault = "OSError"
    /\ (pc \notin BeforeExtract /\ crashSite # "File System Metadata") =>
           IsPrefix(Unconditional, displayed)

\* the categories whose analyzer let an exception leave main
Escalating == {"Cryptographic Hashes", "File System Metadata"}

\* C7 as amended: a failure inside the try of an analyzer shows as an Error
\* or Note field of its category's displayed report, except that an image
\* that cannot be opened (IOError) yields no report for the image category;
\* the failures that leave main are the stat failure and hashlib refusing to
\* make a digest object, which happens before the try of the digest engine
\* and before any digest is computed; unless one of the two happened, the four
\* unconditional reports are displayed before the extractor stage.
C7_FailureContained ==
    /\ fault \notin {"none", "OSError", "ValueError"} =>
           /\ crashSite = ""
           /\ \/ report \cap {"Error", "Note"} # {} /\ LastDisplayed = title
              \/ /\ title = "Image Metadata (EXIF)" /\ fault = "IOError"
                 /\ report = {} /\ LastDisplayed = "Entropy Analysis"
    /\ crashSite \notin AfterAnalysis =>
           \/ /\ crashSite = "File System Metadata" /\ fault = "OSError"
              /\ displayed = SubSeq(Unconditional, 1, 2)
           \/ /\ crashSite = "Cryptographic Hashes" /\ fault = "ValueError"
              /\ h = {} /\ hoff = 0
              /\ displayed = SubSeq(Unconditional, 1, 1)
    /\ fault \in {"OSError", "ValueError"} => crashSite \in Escalating
    /\ (pc \notin BeforeExtract /\ crashSite \notin Escalating) =>
           IsPrefix(Unconditional, displayed)

C7_Witness ==
    /\ pc = "complete" /\ title = "PDF Metadata" /\ fault = "Exception"
    /\ h = {"Error"} /\ report = {"Error"}
    /\ displayed = Unconditional \o <<"PDF Metadata">>

CleaningPcs ==
    {"wipe_open", "wipe_write", "wipe_flush", "wipe_fsync", "wipe_remove",
     "img_load", "img_save", "img_write", "pdf_load", "pdf_out", "pdf_write",
     "pdf_replace", "aud_copy", "aud_tags", "aud_save", "result", "done",
     "crashed"}

CallsOf(act) ==
    CASE act = "secure_wipe" -> {"write", "flush", "fsync", "unlink"}
      [] act = "clean_copy" -> {"create", "write", "copy"}
      [] act = "clean_overwrite" -> {"create", "write", "copy", "rename"}
      [] OTHER -> {}

\* C9: perform_cleaning runs at most once; the disk changes only inside it,
\* after the four unconditional reports were displayed and the extractor
\* stage is over, through the calls of the one selected action; with skip
\* nothing on disk changes.
C9_OneActionAfterAnalysis ==
    /\ cleanings <= 1
    /\ (fs # fs0 \/ \E k \in DOMAIN events : IsIOCall(events[k])) =>
           /\ cleanings = 1
           /\ pc \in CleaningPcs
           /\ crashSite \in {"", "perform_cleaning"}
           /\ action \in {"clean_copy", "clean_overwrite", "secure_wipe"}
           /\ extractor # ""
           /\ IsPrefix(Unconditional, displayed)
    /\ \A k \in DOMAIN events :
           IsIOCall(events[k]) => events[k].call \in CallsOf(action)
    /\ action = "skip" => fs = fs0

C9_Witness ==
    /\ pc = "done" /\ action = "clean_copy" /\ cleanings = 1
    /\ fs # fs0 /\ res.succ

\* C10: for an extension of one of the three extractor sets main runs that
\* set's extractor whatever libraries are installed, and a missing library
\* shows as the single Note of that extractor's report.
C10_ExtractorAlwaysRuns ==
    pc = "complete" =>
        /\ ext \in ImageExts =>
               /\ extractor = "image"
               /\ ~caps.PIL => report = {"Note"}
        /\ ext \in PdfExts =>
               /\ extractor = "pdf"
               /\ ~caps.PYPDF2 => report = {"Note"}
        /\ ext \in AVExts =>
               /\ extractor = "av"
               /\ ~caps.MUTAGEN => report = {"Note"}

====
